---- MODULE Spec2Model ----
(***************************************************************************)
(* The task_sequence tutorial of the oneAPI samples: the FIFO invocation   *)
(* queue that the tutorial's README documents (async / get, invocation and *)
(* response capacity), the task function dotProduct, and the two kernels   *)
(* SequentialTask and ParallelTask that main() of task_sequence.cpp runs.  *)
(* After these: the board selection of the device_global and               *)
(* mvdr_beamforming CMakeLists.txt files, and the ciTests step lists of    *)
(* the Embree ray-tracer sample.json.                                      *)
(***************************************************************************)
EXTENDS Integers, Sequences, FiniteSets, TLC

\* ------------------------------------------------------------------ bounds

\* largest element count 'count' that main is run with
MaxCount == 5
\* the input elements are the fractions k/Den with 0 <= k < Den, i.e. in [0, 1)
Den == 2
\* how many fragments an FPGA_DEVICE name given to cmake is put together from
MaxParts == 2
\* largest invocation / response capacity a handle is declared with
MaxCap == 2
\* how many invocations beyond the declared capacities the hardware may buffer
ExtraDepth == 1
\* how many async calls the free-running caller issues in all
MaxSubmits == 3

\* ------------------------------------------------------- program constants

\* default invocation capacity and response capacity of a task_sequence
DefaultCapacity == 1
\* the checks compare against (ValueT)0.001 = TolNum / TolDen
TolNum == 1
TolDen == 1000
\* size_t count = 16384;
DefaultCount == 16384

\* ------------------------------------------------------------------- state

VARIABLES
  in,       \* the input vector: in[i] is the numerator k of the element k/Den
  count,    \* main's element count
  golden,   \* main's host reference value
  out,      \* main's host vector out(2), indexed 0..1
  outdev,   \* the device copy of out behind out_buf
  hostPc,   \* where main is
  kpc,      \* where the running kernel is
  got,      \* ParallelTask: the values its get() calls have returned so far
  printed,  \* the lines written to the console, in order
  live,     \* the task_sequence objects in scope
  icap,     \* declared invocation capacity of each handle
  rcap,     \* declared response capacity of each handle
  xinv,     \* async invocations the hardware accepts beyond the invocation capacity
  xresp,    \* outstanding invocations that progress beyond the response capacity
  queue,    \* per handle: the outstanding invocations, oldest first
  nsub,     \* per handle: number of async calls that returned
  nget,     \* per handle: number of get calls that returned
  hist,     \* per handle: the arguments of the async calls, in call order
  log,      \* per handle: what the get calls returned, in call order
  rpc,      \* where the README's two-async / two-get caller is
  rargs,    \* that caller's arguments: (argA, argB) and (argC, argD)
  rres,     \* that caller's firstResult and secondResult
  argv,     \* main's command-line arguments after the program name
  q,        \* main's device queue: "none" until it is created
  inflight, \* the kernels submitted to the device and not yet completed
  timed,    \* which of sequentialTime and parallelTime main has computed
  dcall,    \* a direct call of dotProduct: its arguments and what it returned
  cmFile,   \* the CMakeLists.txt being configured: "none" when cmake is not run
  cmPc,     \* where cmake is in that file
  cmVars,   \* the cmake variables the file reads or sets: defined or not, and the value
  cmMsgs,   \* the messages cmake has issued, in order
  cmArgs,   \* the -D definitions cmake was started with
  cmFlags,  \* the compile and link flag sets, as sequences of flags
  ciPlat,   \* the platform whose ciTests steps are run: "none" when none is
  ciStep,   \* the number of steps of that list carried out
  ciCwd,    \* the working directory, as a path from the sample root
  ciDirs,   \* the directories and files that exist under the sample root
  ciState,  \* "running", "finished", or "stopped" after a failed step
  ciLog,    \* per step carried out: its outcome and the directory it ran in
  ciPolicy  \* what the runner does after a failed step: "stop" or "continue"

apiVars == <<queue, nsub, nget, hist, log>>
cfgVars == <<in, live, icap, rcap, xinv, xresp>>
auxVars == <<argv, q, inflight, timed, dcall>>
mainVars == <<count, golden, out, outdev, hostPc, kpc, got, printed, auxVars>>
readmeVars == <<rpc, rargs, rres>>
vars == <<in, count, golden, out, outdev, hostPc, kpc, got, printed, live,
          icap, rcap, xinv, xresp, queue, nsub, nget, hist, log, rpc, rargs,
          rres, argv, q, inflight, timed, dcall, cmFile, cmPc, cmVars,
          cmMsgs, cmArgs, cmFlags, ciPlat, ciStep, ciCwd, ciDirs, ciState,
          ciLog, ciPolicy>>
cmakeVars == <<cmFile, cmPc, cmVars, cmMsgs, cmArgs, cmFlags>>
ciVars == <<ciPlat, ciStep, ciCwd, ciDirs, ciState, ciLog, ciPolicy>>
buildVars == <<cmakeVars, ciVars>>

\* cmake is not being run
NoCMake ==
  /\ cmFile = "none" /\ cmPc = "none"
  /\ cmVars = <<>> /\ cmMsgs = <<>> /\ cmArgs = <<>> /\ cmFlags = <<>>

\* no ciTests step list is being run
NoCiRun ==
  /\ ciPlat = "none" /\ ciStep = 0
  /\ ciCwd = <<>> /\ ciDirs = {} /\ ciState = "none"
  /\ ciLog = <<>> /\ ciPolicy = "none"

KernelHandles == {"whole", "firstQuarter", "secondQuarter", "thirdQuarter",
                  "fourthQuarter"}
\* four async calls made on one and the same handle
Quarters_AllFirst ==
  <<"firstQuarter", "firstQuarter", "firstQuarter", "firstQuarter">>

Quarters == <<"firstQuarter", "secondQuarter", "thirdQuarter", "fourthQuarter">>
ReadmeHandles == {"firstInstance", "secondInstance"}
AllHandles == KernelHandles \cup ReadmeHandles

\* ------------------------------------------------------------ dotProduct

\* a conversion back to int that rounds to the nearest integer
MulTrunc_Round(result, k) ==
  IF result * k >= 0
    THEN (2 * result * k + Den) \div (2 * Den)
    ELSE -((2 * (-(result * k)) + Den) \div (2 * Den))

\* result *= v[i]: the int is converted to float, multiplied by the element
\* k/Den, and the product is converted back to int, truncating toward zero
MulTrunc(result, k) ==
  IF result * k >= 0 THEN (result * k) \div Den ELSE -((-(result * k)) \div Den)

RECURSIVE dotLoop(_, _, _, _)
dotLoop(v, i, end, result) ==
  IF i < end THEN dotLoop(v, i + 1, end, MulTrunc(result, v[i + 1])) ELSE result

\* ValueT dotProduct(ValueT* v, size_t s, size_t sz): int result = 1, the loop
\* over i = s .. s+sz-1, and the int returned as a float
dotProduct(v, s, sz) == dotLoop(v, s, s + sz, 1)

\* template <typename T> T abs(T x)
abs(x) == IF x > 0 THEN x ELSE -x

\* abs(a - b) < (ValueT)0.001
WithinTolerance(a, b) == abs(a - b) * TolDen < TolNum

\* ------------------------------------------------- the task_sequence queue

\* what a handle's outstanding invocation looks like: the number of the async
\* call that made it, the task's arguments, and (once the task has run) its
\* return value
Invocation(n, s, sz) ==
  [id |-> n, s |-> s, sz |-> sz, st |-> "running", res |-> 0]

\* the number of submitted-but-uncollected invocations of handle h
Outstanding(h) == Len(queue[h])

\* The invocation capacity is the MINIMUM number of async calls supported
\* without a get before a further async may block: the hardware's queue holds
\* that many invocations and possibly more.
Depth(h) == icap[h] + xinv

\* The response capacity is the number of outstanding invocations that are all
\* guaranteed to make forward progress: the oldest RespWindow(h) invocations
\* of a handle can always complete, later ones may have to wait for a get.
RespWindow_OneLess(h) == rcap[h] + xresp - 1
RespWindow(h) == rcap[h] + xresp

\* async returns (does not block) while the hardware's queue has room
AsyncReady_Overrun(h) == Outstanding(h) <= Depth(h)
AsyncReady_Drained(h) ==
  /\ Outstanding(h) < Depth(h)
  /\ \A p \in 1..Len(queue[h]) : queue[h][p].st = "done"
AsyncReady(h) == Outstanding(h) < Depth(h)

\* the invocation at position p of handle h can run to completion
CanComplete(h, p) ==
  /\ p \in 1..Len(queue[h])
  /\ queue[h][p].st = "running"
  /\ p <= RespWindow(h)

\* the invocation a get collects: results come back in the order in which the
\* tasks were invoked
OldestIndex_Newest(h) == Len(queue[h])
OldestIndex_AnyDone(h) ==
  IF \E p \in 1..Len(queue[h]) : queue[h][p].st = "done"
    THEN CHOOSE p \in 1..Len(queue[h]) :
           /\ queue[h][p].st = "done"
           /\ \A r \in 1..Len(queue[h]) : queue[h][r].st = "done" => r <= p
    ELSE 1
OldestIndex(h) == 1

\* get blocks until the invocation it collects has completed
GetReady(h) ==
  /\ queue[h] # <<>>
  /\ queue[h][OldestIndex(h)].st = "done"

\* the value get returns
GetValue(h) == queue[h][OldestIndex(h)].res

\* the queue without position p
RemoveAt(sq, p) ==
  [r \in 1..(Len(sq) - 1) |-> IF r < p THEN sq[r] ELSE sq[r + 1]]

\* h.async(v, s, sz): one more outstanding invocation at the back of h's queue
AsyncOp_Overwrite(h, s, sz) ==
  /\ h \in live
  /\ AsyncReady(h)
  /\ queue' = [queue EXCEPT ![h] =
                 IF @ = <<>> THEN <<Invocation(nsub[h] + 1, s, sz)>>
                 ELSE [@ EXCEPT ![Len(@)] = Invocation(nsub[h] + 1, s, sz)]]
  /\ nsub' = [nsub EXCEPT ![h] = @ + 1]
  /\ hist' = [hist EXCEPT ![h] = Append(@, <<s, sz>>)]
  /\ UNCHANGED <<nget, log>>
AsyncOp_Shared(h, s, sz) ==
  /\ h \in live
  /\ AsyncReady(h)
  /\ queue' = [g \in AllHandles |->
                 IF g \in live
                   THEN Append(queue[g], Invocation(nsub[h] + 1, s, sz))
                   ELSE queue[g]]
  /\ nsub' = [nsub EXCEPT ![h] = @ + 1]
  /\ hist' = [hist EXCEPT ![h] = Append(@, <<s, sz>>)]
  /\ UNCHANGED <<nget, log>>
AsyncOp(h, s, sz) ==
  /\ h \in live
  /\ AsyncReady(h)
  /\ queue' = [queue EXCEPT ![h] = Append(@, Invocation(nsub[h] + 1, s, sz))]
  /\ nsub' = [nsub EXCEPT ![h] = @ + 1]
  /\ hist' = [hist EXCEPT ![h] = Append(@, <<s, sz>>)]
  /\ UNCHANGED <<nget, log>>

\* h.get(): removes the oldest invocation once it has completed and returns
\* its result (GetValue(h), read in the state before the step)
GetOp(h) ==
  /\ h \in live
  /\ GetReady(h)
  /\ queue' = [queue EXCEPT ![h] = RemoveAt(@, OldestIndex(h))]
  /\ log' = [log EXCEPT ![h] =
               Append(@, [id |-> queue[h][OldestIndex(h)].id, res |-> GetValue(h)])]
  /\ nget' = [nget EXCEPT ![h] = @ + 1]
  /\ UNCHANGED <<nsub, hist>>

\* main has not ended: neither returned, nor called std::terminate, nor let
\* an exception escape
ProcessAlive == hostPc \notin {"exit_1", "done", "terminate", "uncaught"}

\* the task hardware of handle h finishes the invocation at position p: the
\* task function has run on that invocation's arguments
Complete(h, p) ==
  /\ ProcessAlive
  /\ h \in live
  /\ CanComplete(h, p)
  /\ queue' = [queue EXCEPT ![h][p] =
                 [queue[h][p] EXCEPT
                    !.st = "done",
                    !.res = dotProduct(in, queue[h][p].s, queue[h][p].sz)]]
  /\ UNCHANGED <<nsub, nget, hist, log>>
  /\ UNCHANGED <<cfgVars, mainVars, readmeVars, buildVars>>

\* the empty per-handle state
NoQueues == [h \in AllHandles |-> <<>>]
Zeros == [h \in AllHandles |-> 0]
DefaultCaps == [h \in AllHandles |-> DefaultCapacity]

\* the input vectors of n elements, each in [0, 1)
Vectors(n) == [1..n -> 0..(Den - 1)]

\* the (s, sz) arguments the README's callers pass: the empty range and the
\* whole of a one-element vector
CallerArgs == {<<0, 0>>, <<0, 1>>}

\* ------------------------------------------- a caller free to async and get

\* two handles of the same task function, as firstInstance and secondInstance
\* in the README; firstInstance's capacities are the declaration's choice
InitWith(handles) ==
  /\ in \in Vectors(1)
  /\ live = handles
  /\ \E ic \in 1..MaxCap, rc \in 1..MaxCap :
       /\ icap = [DefaultCaps EXCEPT !["firstInstance"] = ic]
       /\ rcap = [DefaultCaps EXCEPT !["firstInstance"] = rc]
  /\ xinv \in 0..ExtraDepth
  /\ xresp \in 0..ExtraDepth
  /\ queue = NoQueues /\ hist = NoQueues /\ log = NoQueues
  /\ nsub = Zeros /\ nget = Zeros
  /\ count = 1 /\ golden = 0
  /\ out = [i \in 0..1 |-> 0] /\ outdev = [i \in 0..1 |-> 0]
  /\ hostPc = "none" /\ kpc = "none" /\ got = {} /\ printed = <<>>
  /\ argv = <<>> /\ q = "none" /\ inflight = {} /\ timed = {} /\ dcall = <<>>
  /\ NoCMake /\ NoCiRun
  /\ rpc = "none" /\ rargs = <<>> /\ rres = <<>>

Init == InitWith(ReadmeHandles)

\* the async calls made so far on the handles in scope
RECURSIVE SumOver(_, _)
SumOver(f, S) ==
  IF S = {} THEN 0
  ELSE LET h == CHOOSE x \in S : TRUE IN f[h] + SumOver(f, S \ {h})

Async(h, s, sz) ==
  /\ SumOver(nsub, live) < MaxSubmits
  /\ AsyncOp(h, s, sz)
  /\ UNCHANGED <<cfgVars, mainVars, readmeVars, buildVars>>

Get(h) ==
  /\ GetOp(h)
  /\ UNCHANGED <<cfgVars, mainVars, readmeVars, buildVars>>

\* the queue positions an invocation can be at
Positions == 1..(MaxCap + ExtraDepth)

Next ==
  \/ \E h \in ReadmeHandles, r \in CallerArgs : Async(h, r[1], r[2])
  \/ \E h \in ReadmeHandles : Get(h)
  \/ \E h \in ReadmeHandles, p \in Positions : Complete(h, p)

Spec == Init /\ [][Next]_vars

\* ---------------------------------- the README's two async calls, two gets

\* sycl::ext::intel::experimental::task_sequence<someTask> firstInstance, with
\* the default capacities, and the caller's arguments (argA, argB), (argC, argD)
ReadmeInit ==
  /\ in \in Vectors(1)
  /\ live = {"firstInstance"}
  /\ icap = DefaultCaps /\ rcap = DefaultCaps
  /\ xinv \in 0..ExtraDepth
  /\ xresp \in 0..ExtraDepth
  /\ queue = NoQueues /\ hist = NoQueues /\ log = NoQueues
  /\ nsub = Zeros /\ nget = Zeros
  /\ count = 1 /\ golden = 0
  /\ out = [i \in 0..1 |-> 0] /\ outdev = [i \in 0..1 |-> 0]
  /\ hostPc = "none" /\ kpc = "none" /\ got = {} /\ printed = <<>>
  /\ argv = <<>> /\ q = "none" /\ inflight = {} /\ timed = {} /\ dcall = <<>>
  /\ NoCMake /\ NoCiRun
  /\ rpc = "async1" /\ rargs \in CallerArgs \X CallerArgs /\ rres = <<>>

\* firstInstance.async(argA, argB); // first async invocation
ReadmeAsync1 ==
  /\ rpc = "async1"
  /\ AsyncOp("firstInstance", rargs[1][1], rargs[1][2])
  /\ rpc' = "async2"
  /\ UNCHANGED <<cfgVars, mainVars, buildVars, rargs, rres>>

\* firstInstance.async(argC, argD); // second async invocation
ReadmeAsync2 ==
  /\ rpc = "async2"
  /\ AsyncOp("firstInstance", rargs[2][1], rargs[2][2])
  /\ rpc' = "get1"
  /\ UNCHANGED <<cfgVars, mainVars, buildVars, rargs, rres>>

\* auto firstResult = firstInstance.get();
ReadmeGet1 ==
  /\ rpc = "get1"
  /\ GetOp("firstInstance")
  /\ rres' = Append(rres, GetValue("firstInstance"))
  /\ rpc' = "get2"
  /\ UNCHANGED <<cfgVars, mainVars, buildVars, rargs>>

\* auto secondResult = firstInstance.get();
ReadmeGet2 ==
  /\ rpc = "get2"
  /\ GetOp("firstInstance")
  /\ rres' = Append(rres, GetValue("firstInstance"))
  /\ rpc' = "exit"
  /\ UNCHANGED <<cfgVars, mainVars, buildVars, rargs>>

\* the closing brace: firstInstance goes out of scope
ReadmeExit ==
  /\ rpc = "exit"
  /\ live' = live \ {"firstInstance"}
  /\ rpc' = "done"
  /\ UNCHANGED <<in, icap, rcap, xinv, xresp, apiVars, mainVars, buildVars, rargs, rres>>

ReadmeNext ==
  \/ ReadmeAsync1
  \/ ReadmeAsync2
  \/ ReadmeGet1
  \/ ReadmeGet2
  \/ ReadmeExit
  \/ \E p \in Positions : Complete("firstInstance", p)

ReadmeSpec == ReadmeInit /\ [][ReadmeNext]_vars

\* --------------------------------------------- main() of task_sequence.cpp

QuarterSet == {Quarters[k] : k \in 1..4}

\* ---- argv[1] and atoi

DigitChars == <<"0", "1", "2", "3", "4", "5", "6", "7", "8", "9">>
IsDigit(c) == \E d \in 1..10 : DigitChars[d] = c
DigitValue(c) == (CHOOSE d \in 1..10 : DigitChars[d] = c) - 1

\* the decimal digits of s from position i on, up to the first non-digit
RECURSIVE atoiDigits(_, _, _)
atoiDigits(s, i, acc) ==
  IF i <= Len(s) /\ IsDigit(s[i])
    THEN atoiDigits(s, i + 1, acc * 10 + DigitValue(s[i]))
    ELSE acc

\* int atoi(const char*): an optional sign, then digits; 0 when there are none
atoi(s) ==
  IF s # <<>> /\ s[1] = "-" THEN -atoiDigits(s, 2, 0)
  ELSE IF s # <<>> /\ s[1] = "+" THEN atoiDigits(s, 2, 0)
  ELSE atoiDigits(s, 1, 0)

\* size_t is unsigned and 64 bits wide in the program; TLC's integers are 32
\* bits wide, so the model's size_t wraps at 2^30, which like 2^64 is far above
\* every count a vector can hold
SizeModulus == 2^30

\* the conversion of an int to size_t
ToSizeT(n) == n % SizeModulus

\* std::vector<ValueT>::max_size(): the address space divided by the size of
\* an element, and by two for the signed difference type
VectorMaxSize == SizeModulus \div 8

\* the strings main is started with as argv[1]: one character, a sign and a
\* digit, or a digit followed by one more character
ArgChars == {"-", "a"} \cup {DigitChars[d + 1] : d \in 0..MaxCount}
ArgStrings ==
  {<<c>> : c \in ArgChars}
    \cup {<<"-", c>> : c \in ArgChars \ {"-", "a"}}
    \cup {<<"1", "0">>, <<"1", "a">>}

\* main is entered: argv is given, nothing has run
MainInit ==
  /\ argv \in {<<>>} \cup {<<s>> : s \in ArgStrings}
  /\ count = DefaultCount /\ in = <<>> /\ golden = 0
  /\ out = [i \in 0..1 |-> 0] /\ outdev = [i \in 0..1 |-> 0]
  /\ hostPc = "start" /\ kpc = "idle" /\ got = {} /\ printed = <<>>
  /\ q = "none" /\ inflight = {} /\ timed = {} /\ dcall = <<>>
  /\ NoCMake /\ NoCiRun
  /\ live = {}
  /\ icap = DefaultCaps /\ rcap = DefaultCaps
  /\ xinv \in 0..ExtraDepth
  /\ xresp \in 0..ExtraDepth
  /\ queue = NoQueues /\ hist = NoQueues /\ log = NoQueues
  /\ nsub = Zeros /\ nget = Zeros
  /\ rpc = "none" /\ rargs = <<>> /\ rres = <<>>

\* size_t count = 16384; if (argc > 1) count = atoi(argv[1]);
HostParseArg ==
  /\ hostPc = "start"
  /\ count' = IF Len(argv) > 0 THEN ToSizeT(atoi(argv[1])) ELSE count
  /\ hostPc' = "check_count"
  /\ UNCHANGED <<cfgVars, apiVars, readmeVars, buildVars, auxVars, golden, out, outdev,
                 kpc, got, printed>>

\* if (count <= 0) { std::cerr << "ERROR: ..."; return 1; }
HostCheckCount ==
  /\ hostPc = "check_count"
  /\ IF count <= 0
       THEN /\ printed' = Append(printed, "ERROR: 'count' must be positive")
            /\ hostPc' = "exit_1"
       ELSE /\ printed' = printed
            /\ hostPc' = "create_queue"
  /\ UNCHANGED <<cfgVars, apiVars, readmeVars, buildVars, auxVars, count, golden, out,
                 outdev, kpc, got>>

\* sycl::queue q(selector, dpc_common::exception_handler, enable_profiling{});
HostCreateQueue ==
  /\ hostPc = "create_queue"
  /\ q' = "created"
  /\ hostPc' = "generate"
  /\ UNCHANGED <<cfgVars, apiVars, readmeVars, buildVars, argv, inflight, timed, dcall,
                 count, golden, out, outdev, kpc, got, printed>>

\* std::vector<ValueT> in(count) with more elements than a vector can hold:
\* std::length_error, which is no sycl::exception, leaves main uncaught
HostAllocateFails ==
  /\ hostPc = "generate"
  /\ count > VectorMaxSize
  /\ hostPc' = "uncaught"
  /\ UNCHANGED <<cfgVars, apiVars, readmeVars, buildVars, auxVars, count, golden, out,
                 outdev, kpc, got, printed>>

\* std::vector<ValueT> in(count), out(2); the elements of in drawn from
\* [0, 1); golden = dotProduct(in.data(), 0, count); then the buffers in_buf
\* and out_buf are made. Followed for the counts up to MaxCount.
HostGenerate ==
  /\ hostPc = "generate"
  /\ count <= VectorMaxSize
  /\ count <= MaxCount
  /\ in' \in Vectors(count)
  /\ golden' = dotProduct(in', 0, count)
  /\ hostPc' = "submit_seq"
  /\ UNCHANGED <<live, icap, rcap, xinv, xresp, apiVars, readmeVars, buildVars, auxVars,
                 count, out, outdev, kpc, got, printed>>

\* sycl::event e = q.submit(... h.single_task<SequentialTask>(...))
HostSubmitSeq ==
  /\ hostPc = "submit_seq"
  /\ hostPc' = "wait_seq"
  /\ kpc' = "seq_decl"
  /\ inflight' = inflight \cup {"SequentialTask"}
  /\ UNCHANGED <<cfgVars, apiVars, readmeVars, buildVars, argv, q, timed, dcall, count,
                 golden, out, outdev, got, printed>>

\* task_sequence<dotProduct> whole;
SeqDeclare ==
  /\ ProcessAlive
  /\ kpc = "seq_decl"
  /\ live' = live \cup {"whole"}
  /\ kpc' = "seq_async"
  /\ UNCHANGED <<in, icap, rcap, xinv, xresp, apiVars, readmeVars, buildVars, auxVars, count,
                 golden, out, outdev, hostPc, got, printed>>

\* whole.async(in_acc.get_pointer(), 0, count);
SeqAsync ==
  /\ ProcessAlive
  /\ kpc = "seq_async"
  /\ AsyncOp("whole", 0, count)
  /\ kpc' = "seq_get"
  /\ UNCHANGED <<cfgVars, readmeVars, buildVars, auxVars, count, golden, out, outdev, hostPc, got,
                 printed>>

\* out_acc[0] = whole.get();
SeqGet_Skipped ==
  /\ kpc = "seq_get"
  /\ kpc' = "seq_exit"
  /\ UNCHANGED <<cfgVars, apiVars, readmeVars, buildVars, auxVars, count, golden, out, outdev,
                 hostPc, got, printed>>
SeqGet ==
  /\ ProcessAlive
  /\ kpc = "seq_get"
  /\ GetOp("whole")
  /\ outdev' = [outdev EXCEPT ![0] = GetValue("whole")]
  /\ kpc' = "seq_exit"
  /\ UNCHANGED <<cfgVars, readmeVars, buildVars, auxVars, count, golden, out, hostPc, got, printed>>

\* the end of the kernel's body: whole goes out of scope, the kernel is done
SeqExit ==
  /\ ProcessAlive
  /\ kpc = "seq_exit"
  /\ live' = live \ {"whole"}
  /\ kpc' = "seq_done"
  /\ inflight' = inflight \ {"SequentialTask"}
  /\ UNCHANGED <<in, icap, rcap, xinv, xresp, apiVars, readmeVars, buildVars, argv, q,
                 timed, dcall, count, golden, out, outdev, hostPc, got,
                 printed>>

\* a wait that returns without waiting
WaitReturns_AtOnce == TRUE

\* q.wait() returns once everything submitted to q has completed
WaitReturns == inflight = {}

\* q.wait(); after the submission of SequentialTask
HostWaitSeq ==
  /\ hostPc = "wait_seq"
  /\ WaitReturns
  /\ hostPc' = "profile_seq"
  /\ UNCHANGED <<cfgVars, apiVars, readmeVars, buildVars, auxVars, count, golden, out,
                 outdev, kpc, got, printed>>

\* start = e.get_profiling_info<command_start>(); end = ...<command_end>();
\* sequentialTime = (double)(end - start) * 1e-6;
HostProfileSeq ==
  /\ hostPc = "profile_seq"
  /\ timed' = timed \cup {"sequentialTime"}
  /\ hostPc' = "submit_par"
  /\ UNCHANGED <<cfgVars, apiVars, readmeVars, buildVars, argv, q, inflight, dcall, count,
                 golden, out, outdev, kpc, got, printed>>

\* e = q.submit(... h.single_task<ParallelTask>(...))
HostSubmitPar ==
  /\ hostPc = "submit_par"
  /\ hostPc' = "wait_par"
  /\ kpc' = "par_decl"
  /\ inflight' = inflight \cup {"ParallelTask"}
  /\ UNCHANGED <<cfgVars, apiVars, readmeVars, buildVars, argv, q, timed, dcall, count,
                 golden, out, outdev, got, printed>>

\* task_sequence<dotProduct> firstQuarter, secondQuarter, thirdQuarter,
\* fourthQuarter;
ParDeclare ==
  /\ ProcessAlive
  /\ kpc = "par_decl"
  /\ live' = live \cup QuarterSet
  /\ kpc' = "par_async1"
  /\ UNCHANGED <<in, icap, rcap, xinv, xresp, apiVars, readmeVars, buildVars, auxVars, count,
                 golden, out, outdev, hostPc, got, printed>>

\* int quarterCount = count / 4;
quarterCount == count \div 4

ParAsyncPc == <<"par_async1", "par_async2", "par_async3", "par_async4">>

\* the k-th of the four async calls: Quarters[k].async(in_acc.get_pointer(),
\* (k-1) * quarterCount, quarterCount)
ParAsync(k) ==
  /\ ProcessAlive
  /\ kpc = ParAsyncPc[k]
  /\ AsyncOp(Quarters[k], (k - 1) * quarterCount, quarterCount)
  /\ kpc' = IF k < 4 THEN ParAsyncPc[k + 1] ELSE "par_get"
  /\ UNCHANGED <<cfgVars, readmeVars, buildVars, auxVars, count, golden, out, outdev, hostPc, got,
                 printed>>

\* one of the four get() calls of the sum; the order in which the operands of
\* + are evaluated is the compiler's choice
ParGet(h) ==
  /\ ProcessAlive
  /\ kpc = "par_get"
  /\ h \in QuarterSet
  /\ \A g \in got : g[1] # h
  /\ GetOp(h)
  /\ got' = got \cup {<<h, GetValue(h)>>}
  /\ UNCHANGED <<cfgVars, readmeVars, buildVars, auxVars, count, golden, out, outdev, hostPc, kpc,
                 printed>>

\* the value the get() of handle h returned
GotValue(h) == (CHOOSE g \in got : g[1] = h)[2]

\* a sum that leaves out the result of fourthQuarter
QuarterSum_FirstThree ==
  (GotValue("firstQuarter") + GotValue("secondQuarter"))
    + GotValue("thirdQuarter")

\* firstQuarter.get() + secondQuarter.get() + thirdQuarter.get() +
\* fourthQuarter.get(), added left to right
QuarterSum ==
  ((GotValue("firstQuarter") + GotValue("secondQuarter"))
     + GotValue("thirdQuarter")) + GotValue("fourthQuarter")

\* out_acc[1] = <the sum>;
ParStore ==
  /\ ProcessAlive
  /\ kpc = "par_get"
  /\ {g[1] : g \in got} = QuarterSet
  /\ outdev' = [outdev EXCEPT ![1] = QuarterSum]
  /\ kpc' = "par_exit"
  /\ UNCHANGED <<cfgVars, apiVars, readmeVars, buildVars, auxVars, count, golden, out, hostPc, got,
                 printed>>

\* the end of the kernel's body: the four handles go out of scope
ParExit ==
  /\ ProcessAlive
  /\ kpc = "par_exit"
  /\ live' = live \ QuarterSet
  /\ kpc' = "par_done"
  /\ inflight' = inflight \ {"ParallelTask"}
  /\ UNCHANGED <<in, icap, rcap, xinv, xresp, apiVars, readmeVars, buildVars, argv, q,
                 timed, dcall, count, golden, out, outdev, hostPc, got,
                 printed>>

\* q.wait(); after the submission of ParallelTask
HostWaitPar ==
  /\ hostPc = "wait_par"
  /\ WaitReturns
  /\ hostPc' = "profile_par"
  /\ UNCHANGED <<cfgVars, apiVars, readmeVars, buildVars, auxVars, count, golden, out,
                 outdev, kpc, got, printed>>

\* start = e.get_profiling_info<command_start>(); end = ...<command_end>();
\* parallelTime = (double)(end - start) * 1e-6;
HostProfilePar ==
  /\ hostPc = "profile_par"
  /\ timed' = timed \cup {"parallelTime"}
  /\ hostPc' = "close_scope"
  /\ UNCHANGED <<cfgVars, apiVars, readmeVars, buildVars, argv, q, inflight, dcall, count,
                 golden, out, outdev, kpc, got, printed>>

\* a scope end that leaves the host vector as it was
HostCloseScope_NoWriteBack ==
  /\ hostPc = "close_scope"
  /\ out' = out
  /\ hostPc' = "check_seq"
  /\ UNCHANGED <<cfgVars, apiVars, readmeVars, buildVars, auxVars, count, golden, outdev,
                 kpc, got, printed>>

\* the closing brace of the buffers' scope: out_buf is destroyed and its
\* contents are written back to the host vector out
HostCloseScope ==
  /\ hostPc = "close_scope"
  /\ out' = outdev
  /\ hostPc' = "check_seq"
  /\ UNCHANGED <<cfgVars, apiVars, readmeVars, buildVars, auxVars, count, golden, outdev, kpc, got,
                 printed>>

\* the line a check prints
Verdict(value, passed) ==
  IF WithinTolerance(value, golden) THEN passed ELSE "FAILED"

\* if (abs(out[0] - golden) < (ValueT)0.001) ... "PASSED sequential test"
HostCheckSeq ==
  /\ hostPc = "check_seq"
  /\ printed' = Append(printed, Verdict(out[0], "PASSED sequential test"))
  /\ hostPc' = "check_par"
  /\ UNCHANGED <<cfgVars, apiVars, readmeVars, buildVars, auxVars, count, golden, out, outdev, kpc,
                 got>>

\* a parallel check that ends the run when the values differ
HostCheckPar_AbortOnFail ==
  /\ hostPc = "check_par"
  /\ printed' = Append(printed, Verdict(out[1], "PASSED parallel test"))
  /\ hostPc' = IF WithinTolerance(out[1], golden) THEN "print_times" ELSE "done"
  /\ UNCHANGED <<cfgVars, apiVars, readmeVars, buildVars, auxVars, count, golden, out,
                 outdev, kpc, got>>

\* if (abs(out[1] - golden) < (ValueT)0.001) ... "PASSED parallel test"
HostCheckPar ==
  /\ hostPc = "check_par"
  /\ printed' = Append(printed, Verdict(out[1], "PASSED parallel test"))
  /\ hostPc' = "print_times"
  /\ UNCHANGED <<cfgVars, apiVars, readmeVars, buildVars, auxVars, count, golden, out, outdev, kpc,
                 got>>

\* the two timing lines
HostPrintTimes ==
  /\ hostPc = "print_times"
  /\ printed' = printed \o <<"Sequential time", "Parallel time">>
  /\ hostPc' = "done"
  /\ UNCHANGED <<cfgVars, apiVars, readmeVars, buildVars, auxVars, count, golden, out, outdev, kpc,
                 got>>

\* the statements of main's try block at which the offload runtime can raise
\* a sycl::exception
ThrowPoints == {"create_queue", "submit_seq", "wait_seq", "profile_seq",
                "submit_par", "wait_par", "profile_par"}

\* the statements inside the scope of in_buf and out_buf
BufferScope == {"submit_seq", "wait_seq", "profile_seq", "submit_par",
                "wait_par", "profile_par", "close_scope"}

\* a catch clause that reports the exception and lets main run on
HostException_Continues ==
  /\ hostPc \in ThrowPoints
  /\ out' = IF hostPc \in BufferScope THEN outdev ELSE out
  /\ printed' = Append(printed, "Caught a SYCL host exception")
  /\ hostPc' = "check_seq"
  /\ UNCHANGED <<cfgVars, apiVars, readmeVars, buildVars, auxVars, count, golden, outdev,
                 kpc, got>>

\* a sycl::exception is raised in the try block: the buffers in scope are
\* destroyed on the way out, then catch (sycl::exception const& e) prints
\* "Caught a SYCL host exception" and calls std::terminate()
HostException ==
  /\ hostPc \in ThrowPoints
  /\ out' = IF hostPc \in BufferScope THEN outdev ELSE out
  /\ printed' = Append(printed, "Caught a SYCL host exception")
  /\ hostPc' = "terminate"
  /\ UNCHANGED <<cfgVars, apiVars, readmeVars, buildVars, auxVars, count, golden, outdev,
                 kpc, got>>

MainNext ==
  \/ HostParseArg
  \/ HostCheckCount
  \/ HostCreateQueue
  \/ HostAllocateFails
  \/ HostGenerate
  \/ HostException
  \/ HostProfileSeq
  \/ HostProfilePar
  \/ HostSubmitSeq
  \/ SeqDeclare
  \/ SeqAsync
  \/ SeqGet
  \/ SeqExit
  \/ HostWaitSeq
  \/ HostSubmitPar
  \/ ParDeclare
  \/ \E k \in 1..4 : ParAsync(k)
  \/ \E h \in QuarterSet : ParGet(h)
  \/ ParStore
  \/ ParExit
  \/ HostWaitPar
  \/ HostCloseScope
  \/ HostCheckSeq
  \/ HostCheckPar
  \/ HostPrintTimes
  \/ \E h \in KernelHandles, p \in Positions : Complete(h, p)

MainSpec == MainInit /\ [][MainNext]_vars

\* a statement of the body of SequentialTask or ParallelTask
KernelStep ==
  \/ SeqDeclare
  \/ SeqAsync
  \/ SeqGet
  \/ SeqExit
  \/ ParDeclare
  \/ \E k \in 1..4 : ParAsync(k)
  \/ \E h \in QuarterSet : ParGet(h)
  \/ ParStore
  \/ ParExit

\* a step of the device: a statement of the submitted kernel, or an
\* invocation of one of its handles running to completion
DeviceStep ==
  \/ KernelStep
  \/ \E h \in KernelHandles, p \in Positions : Complete(h, p)

\* main on a device that holds no more invocations than the declared
\* capacities, the least the README allows and the case in which an async
\* or a get is most likely to block
MainFairInit == MainInit /\ xinv = 0 /\ xresp = 0

\* main with the device fair: while the device can take a step, it
\* eventually takes one
MainFairSpec ==
  /\ MainFairInit
  /\ [][MainNext]_vars
  /\ WF_vars(DeviceStep)

\* ------------------------------------------- the free caller, one handle,
\* ------------------------------------------- with the task hardware fair

FairInit == InitWith({"firstInstance"})

\* every invocation that can run to completion eventually does; no get is
\* ever forced to happen
FairSpec ==
  /\ FairInit
  /\ [][Next]_vars
  /\ \A h \in ReadmeHandles : \A p \in Positions : WF_vars(Complete(h, p))

\* ------------------------------------------------------------- properties

\* the task function applied to the arguments of the i-th async call on h
Expected(h, i) == dotProduct(in, hist[h][i][1], hist[h][i][2])

\* C1: FIFO result order per handle. The i-th get on a handle returns the
\* result of the i-th async on that handle, i.e. the task function applied to
\* the i-th submission's arguments, never that of an earlier or later one.
C1_FifoResultOrder ==
  \A h \in AllHandles : \A i \in 1..Len(log[h]) :
    /\ log[h][i].id = i
    /\ log[h][i].res = Expected(h, i)

\* two submits with different results, then both collected
C1_Witness ==
  \E h \in live :
    /\ nsub[h] = 2 /\ nget[h] = 2
    /\ log[h][1].res # log[h][2].res

\* C2: four-handle scenario. When main has finished, the value ParallelTask
\* stored in out[1] equals out[0] and golden within the 0.001 tolerance, and
\* the second line printed is 'PASSED parallel test'.
C2_ParallelMatchesSequential ==
  hostPc = "done" =>
    /\ WithinTolerance(out[1], out[0])
    /\ WithinTolerance(out[1], golden)
    /\ printed[2] = "PASSED parallel test"

\* C3: submit does not block below capacity. Whenever fewer invocations are
\* outstanding on a handle than its invocation capacity, an async on it can
\* return at once, whether or not earlier invocations have finished and
\* without any get.
C3_AsyncBelowCapacityNotBlocked ==
  \A h \in live :
    Outstanding(h) < icap[h] => ENABLED AsyncOp(h, 0, 0)

\* a second async has returned while the first invocation is still running
\* and nothing has been collected
C3_Witness ==
  \E h \in live :
    /\ icap[h] = 2 /\ nget[h] = 0
    /\ Len(queue[h]) = 2
    /\ queue[h][1].st = "running" /\ queue[h][2].st = "running"

\* C4 as stated: the number of outstanding invocations of a handle never
\* exceeds its invocation capacity.
C4_OutstandingWithinCapacity ==
  \A h \in live : Outstanding(h) <= icap[h]

\* C4, amended: the invocation capacity is the minimum the hardware queue
\* holds. The number of outstanding invocations never exceeds the depth of
\* the handle's hardware queue, which is at least the invocation capacity, and
\* an async issued when that queue is full does not take effect.
C4_OutstandingWithinDepth ==
  \A h \in live :
    /\ icap[h] <= Depth(h)
    /\ Outstanding(h) <= Depth(h)
    /\ Outstanding(h) = Depth(h) => ~ENABLED AsyncOp(h, 0, 0)

\* a handle holding more invocations than its invocation capacity, full
C4_Witness ==
  \E h \in live :
    /\ Outstanding(h) > icap[h]
    /\ Outstanding(h) = Depth(h)

\* C5: collect waits for the oldest invocation. Every get that returns on a
\* handle finds the handle's oldest outstanding invocation completed, removes
\* exactly that invocation and returns its result.
C5_GetWaitsForOldest ==
  [][\A h \in AllHandles :
       nget'[h] # nget[h] =>
         /\ queue[h] # <<>>
         /\ queue[h][1].st = "done"
         /\ \A p \in 1..Len(queue[h]) : queue[h][1].id <= queue[h][p].id
         /\ queue'[h] = Tail(queue[h])
         /\ log'[h] = Append(log[h], [id |-> queue[h][1].id,
                                      res |-> queue[h][1].res])]_vars

\* a handle on which a get has returned and whose oldest invocation is still
\* running while a later one has completed: no get can return there
C5_Witness ==
  \E h \in live :
    /\ nget[h] >= 1
    /\ Len(queue[h]) >= 2
    /\ queue[h][1].st = "running"
    /\ queue[h][2].st = "done"
    /\ ~ENABLED GetOp(h)

ScopeEnded(h) ==
  /\ h \notin live
  /\ IF h = "whole"
       THEN kpc \notin {"idle", "seq_decl", "seq_async", "seq_get", "seq_exit"}
       ELSE kpc = "par_done"

\* C7: submissions and collections balance at scope exit. A handle of the
\* sample's kernels that has gone out of scope has had as many gets as asyncs
\* and holds no outstanding invocation.
C7_BalancedAtScopeExit ==
  \A h \in KernelHandles :
    ScopeEnded(h) =>
      /\ nsub[h] = 1
      /\ nget[h] = nsub[h]
      /\ queue[h] = <<>>

\* both kernels have run and released all five handles
C7_Witness ==
  /\ kpc = "par_done"
  /\ live = {}
  /\ \A h \in KernelHandles : nsub[h] = 1 /\ nget[h] = 1

\* C8: handles are independent. A step that is an async or a get on one
\* handle leaves the queue and the collected results of every other handle
\* unchanged, and what a get returns is the task function applied to the
\* arguments of the async of the same number on the same handle.
C8_HandlesIndependent ==
  [][\A h \in AllHandles :
       (nsub'[h] # nsub[h] \/ nget'[h] # nget[h]) =>
         /\ \A g \in AllHandles \ {h} :
              /\ queue'[g] = queue[g]
              /\ log'[g] = log[g]
              /\ hist'[g] = hist[g]
         /\ nget'[h] # nget[h] =>
              log'[h][nget'[h]].res =
                dotProduct(in, hist[h][nget'[h]][1], hist[h][nget'[h]][2])]_vars

\* gets have returned on both handles while the other had work outstanding
\* or collected, with different results
C8_Witness ==
  /\ nget["firstInstance"] >= 1 /\ nget["secondInstance"] >= 1
  /\ log["firstInstance"][1].res # log["secondInstance"][1].res
  /\ Outstanding("firstInstance") >= 1

\* the number of times invocation n of handle h sits in the queue or has been
\* returned by a get
Occurrences(h, n) ==
  Cardinality({p \in 1..Len(queue[h]) : queue[h][p].id = n})
    + Cardinality({i \in 1..Len(log[h]) : log[h][i].id = n})

\* C9: exactly-once delivery, no cancellation. Every invocation submitted to
\* a handle is either still outstanding or has been returned by exactly one
\* get, never both, never twice, never dropped; outstanding = submits - gets
\* >= 0.
C9_ExactlyOnce ==
  \A h \in AllHandles :
    /\ nget[h] <= nsub[h]
    /\ Outstanding(h) = nsub[h] - nget[h]
    /\ Len(log[h]) = nget[h]
    /\ \A n \in 1..nsub[h] : Occurrences(h, n) = 1

\* a handle with one invocation collected and another still outstanding
C9_Witness ==
  \E h \in live :
    /\ nsub[h] >= 2 /\ nget[h] >= 1 /\ Outstanding(h) >= 1

\* invocation n of handle h is outstanding and has not completed
IsRunning(h, n) ==
  \E p \in 1..Len(queue[h]) : queue[h][p].id = n /\ queue[h][p].st = "running"

\* invocation n of handle h has completed
HasCompleted(h, n) ==
  \/ \E p \in 1..Len(queue[h]) : queue[h][p].id = n /\ queue[h][p].st = "done"
  \/ \E i \in 1..Len(log[h]) : log[h][i].id = n

\* C10: forward progress within response capacity. An invocation that is
\* running while at most response-capacity invocations are outstanding on its
\* handle eventually completes, under fair task hardware and with no get
\* required.
C10_ProgressWithinResponseCapacity ==
  \A n \in 1..MaxSubmits :
    LET h == "firstInstance" IN
    (Outstanding(h) <= rcap[h] /\ IsRunning(h, n)) ~> HasCompleted(h, n)

\* two invocations outstanding within a response capacity of 2, both
\* completed, and no get has been made
C10_Witness ==
  \E h \in live :
    /\ rcap[h] = 2 /\ Outstanding(h) = 2 /\ nget[h] = 0
    /\ queue[h][1].st = "done" /\ queue[h][2].st = "done"

\* the lines main has printed, as a set
Printed == {printed[i] : i \in 1..Len(printed)}

\* main is past the test of count
PastCountCheck == hostPc \notin {"start", "check_count"}

\* C11: non-positive count is rejected. Started with an argument that atoi
\* reads as zero or as a negative number, main prints "ERROR: 'count' must be
\* positive" and returns 1 without having created the device queue, allocated
\* the vectors or submitted a kernel; started without an argument, it uses
\* count = 16384.
C11_NonPositiveCountRejected ==
  /\ (Len(argv) > 0 /\ atoi(argv[1]) <= 0 /\ PastCountCheck) =>
       /\ hostPc = "exit_1"
       /\ printed = <<"ERROR: 'count' must be positive">>
       /\ q = "none" /\ in = <<>> /\ kpc = "idle" /\ inflight = {}
  /\ (Len(argv) = 0 /\ hostPc # "start") => count = DefaultCount

\* the lines the checks and the timing report print
ReportLines == {"PASSED sequential test", "PASSED parallel test", "FAILED",
                "Sequential time", "Parallel time"}

\* C12: runtime faults terminate the program after they are reported. Once
\* "Caught a SYCL host exception" has been printed, which happens exactly
\* when a sycl::exception was raised in the try block, it is the last line
\* printed, no verdict and no timing line has been or will be printed, main
\* has called std::terminate and no step of the program is possible.
C12_FaultTerminatesAfterReport ==
  /\ [](/\ hostPc = "terminate" <=>
            "Caught a SYCL host exception" \in Printed
        /\ hostPc = "terminate" =>
             /\ printed[Len(printed)] = "Caught a SYCL host exception"
             /\ Printed \cap ReportLines = {})
  /\ [][hostPc # "terminate"]_vars

\* the exception is raised while ParallelTask is executing on the device
C12_Witness ==
  /\ hostPc = "terminate"
  /\ printed = <<"Caught a SYCL host exception">>
  /\ inflight = {"ParallelTask"}

\* the verdict line for a value: PASSED exactly when it is within 0.001 of
\* golden
VerdictLine(value, passed) ==
  IF abs(value - golden) * TolDen < TolNum THEN passed ELSE "FAILED"

SeqRunning == {"seq_decl", "seq_async", "seq_get", "seq_exit"}

\* the positions of the kernel code at which ParallelTask has not completed
ParRunning == {"par_decl", "par_async1", "par_async2", "par_async3",
               "par_async4", "par_get", "par_exit"}

\* C14: no cross-kernel overlap from the host. The two kernels are never both
\* in flight; ParallelTask is submitted only when SequentialTask has
\* completed; and the profiling times of a kernel are read only when that
\* kernel has completed.
C14_NoCrossKernelOverlap ==
  /\ Cardinality(inflight) <= 1
  /\ hostPc = "submit_par" => inflight = {} /\ kpc = "seq_done"
  /\ "ParallelTask" \in inflight => kpc \in ParRunning
  /\ "SequentialTask" \in inflight => kpc \in SeqRunning
  /\ hostPc = "profile_seq" => inflight = {} /\ kpc = "seq_done"
  /\ hostPc = "profile_par" => inflight = {} /\ kpc = "par_done"
  /\ "sequentialTime" \in timed => kpc \notin SeqRunning \cup {"idle"}
  /\ "parallelTime" \in timed => kpc = "par_done"

\* ParallelTask is collecting its results, SequentialTask has been timed
C14_Witness ==
  /\ inflight = {"ParallelTask"}
  /\ timed = {"sequentialTime"}
  /\ kpc = "par_get"
  /\ hostPc = "wait_par"

\* the indices of the range submitted as (start, size)
RangeOf(call) == {i \in 0..(count - 1) : call[1] <= i /\ i < call[1] + call[2]}

\* the handles of ParallelTask whose submitted range holds index i
HandlesCovering(i) == {h \in QuarterSet : i \in RangeOf(hist[h][1])}

\* C15: the quarters partition the input. Once ParallelTask has made its four
\* async calls, the four ranges it submitted lie inside [0, count) and every
\* index of [0, count) is in exactly one of them.
C15_QuartersPartitionInput ==
  (\A h \in QuarterSet : nsub[h] = 1) =>
    /\ \A h \in QuarterSet :
         /\ hist[h][1][1] >= 0
         /\ hist[h][1][1] + hist[h][1][2] <= count
    /\ \A i \in 0..(count - 1) : Cardinality(HandlesCovering(i)) = 1

\* main is at or past the first comparison of out with golden
AtOrPastChecks == hostPc \in {"check_seq", "check_par", "print_times", "done"}

\* the result the only get() of handle h returned inside its kernel
Collected(h) == log[h][1].res

\* C16: results are checked only after write-back. Whenever main is at or
\* past the comparisons, both kernels have completed and have been timed, the
\* buffers' scope is closed, and the out elements compared are the values the
\* kernels wrote: out[0] the result SequentialTask collected, out[1] the sum
\* of the four results ParallelTask collected.
C16_CheckedAfterWriteBack ==
  AtOrPastChecks =>
    /\ inflight = {} /\ kpc = "par_done" /\ live = {}
    /\ timed = {"sequentialTime", "parallelTime"}
    /\ out = outdev
    /\ out[0] = Collected("whole")
    /\ out[1] = Collected("firstQuarter") + Collected("secondQuarter")
                  + Collected("thirdQuarter") + Collected("fourthQuarter")

\* the parallel comparison is about to read a nonzero value written back
C16_Witness ==
  /\ hostPc = "check_par"
  /\ out[1] = 4
  /\ Collected("firstQuarter") = 1

\* the task function applied to the k-th quarter of the input
QuarterResult(k) == dotProduct(in, (k - 1) * quarterCount, quarterCount)

\* the value of out[1] as a function of the input alone
ParallelResult ==
  QuarterResult(1) + QuarterResult(2) + QuarterResult(3) + QuarterResult(4)

\* a get() of one of ParallelTask's handles is taken in this step
QuarterCollects == \E h \in QuarterSet : nget'[h] # nget[h]

\* C17: ParallelTask is deterministic under interleaving. Every collect of
\* the kernel is made with all four submits issued; whatever the order in
\* which the four invocations completed and were collected, the value the
\* kernel stores in out[1] is the sum of the task function over the four
\* quarters of the input; and while the kernel runs, out[0] and the input do
\* not change.
C17_ParallelDeterministic ==
  [][/\ QuarterCollects => \A h \in QuarterSet : nsub[h] = 1
     /\ (kpc = "par_get" /\ kpc' = "par_exit") =>
          outdev'[1] = ParallelResult
     /\ kpc \in ParRunning =>
          /\ outdev'[0] = outdev[0]
          /\ in' = in
          /\ (outdev'[1] # outdev[1] => kpc' = "par_exit")]_vars

\* the four invocations are in progress at the same time
C17_Witness ==
  /\ kpc = "par_get"
  /\ \A h \in QuarterSet :
       /\ Len(queue[h]) = 1
       /\ queue[h][1].st = "running"

\* --------------------------------------------- dotProduct called on its own

\* a caller holds a vector of up to MaxCount elements and has called nothing
DotInit ==
  /\ \E n \in 0..MaxCount : in \in Vectors(n)
  /\ dcall = <<>>
  /\ NoCMake /\ NoCiRun
  /\ live = {}
  /\ icap = DefaultCaps /\ rcap = DefaultCaps
  /\ xinv = 0 /\ xresp = 0
  /\ queue = NoQueues /\ hist = NoQueues /\ log = NoQueues
  /\ nsub = Zeros /\ nget = Zeros
  /\ count = Len(in) /\ golden = 0
  /\ out = [i \in 0..1 |-> 0] /\ outdev = [i \in 0..1 |-> 0]
  /\ hostPc = "none" /\ kpc = "none" /\ got = {} /\ printed = <<>>
  /\ argv = <<>> /\ q = "none" /\ inflight = {} /\ timed = {}
  /\ rpc = "none" /\ rargs = <<>> /\ rres = <<>>

\* dotProduct(v, s, a + b), dotProduct(v, s, a) and dotProduct(v, s + a, b)
\* are called on ranges inside the vector and their results kept
DotCalls(s, a, b) ==
  /\ dcall = <<>>
  /\ s + a + b <= Len(in)
  /\ dcall' = <<[s |-> s, a |-> a, b |-> b,
                 whole |-> dotProduct(in, s, a + b),
                 left |-> dotProduct(in, s, a),
                 right |-> dotProduct(in, s + a, b)]>>
  /\ UNCHANGED <<cfgVars, apiVars, readmeVars, buildVars, argv, q, inflight, timed,
                 count, golden, out, outdev, hostPc, kpc, got, printed>>

DotNext == \E s \in 0..MaxCount, a \in 0..MaxCount, b \in 0..MaxCount :
             DotCalls(s, a, b)

DotSpec == DotInit /\ [][DotNext]_vars

\* C18: the task function is additive over adjacent ranges. For every vector
\* v, start s and lengths a and b, dotProduct(v, s, a + b) is the sum of
\* dotProduct(v, s, a) and dotProduct(v, s + a, b), and dotProduct over an
\* empty range is 0.
C18_DotProductAdditive ==
  \A i \in 1..Len(dcall) :
    /\ dcall[i].whole = dcall[i].left + dcall[i].right
    /\ dcall[i].a = 0 => dcall[i].left = 0

\* the ranges (start, size) that lie inside the input
RangesInInput ==
  {r \in (0..Len(in)) \X (0..Len(in)) : r[1] + r[2] <= Len(in)}

\* main has generated the input and computed golden
InputGenerated == q = "created" /\ hostPc \notin {"generate", "uncaught"}

\* C19: the integer accumulator collapses the result. On the input main
\* generates, whose elements lie in [0, 1), dotProduct returns 0 over every
\* range of one element or more and 1 over every empty range; golden is 0 for
\* every positive count; every result a handle returned is 0 or 1 by the size
\* of its range; and the value the parallel check compares with golden is 0
\* when count >= 4 and 4 when 1 <= count <= 3.
C19_IntegerAccumulatorCollapses ==
  /\ hostPc = "submit_seq" =>
       \A r \in RangesInInput :
         dotProduct(in, r[1], r[2]) = IF r[2] >= 1 THEN 0 ELSE 1
  /\ InputGenerated => count >= 1 /\ Len(in) = count /\ golden = 0
  /\ \A h \in KernelHandles : \A i \in 1..Len(log[h]) :
       log[h][i].res = IF hist[h][i][2] >= 1 THEN 0 ELSE 1
  /\ hostPc \in {"check_par", "print_times", "done"} =>
       out[1] = IF count >= 4 THEN 0 ELSE 4

\* four elements, all 0.5, and the parallel check about to compare 0 with 0
C19_Witness ==
  /\ hostPc = "check_par"
  /\ count = 4
  /\ \A i \in 1..4 : in[i] = Den - 1
  /\ golden = 0 /\ out[1] = 0

\* the handle the next async call of the kernel is made on, if it is at one
AtAsyncOn(h) ==
  \/ kpc = "seq_async" /\ h = "whole"
  \/ \E k \in 1..4 : kpc = ParAsyncPc[k] /\ h = Quarters[k]

\* C20: both sample kernels terminate. No handle of the kernels ever has more
\* than one outstanding invocation, every async call the kernels reach can be
\* made at once, and with the device fair a kernel at any statement of its
\* body, the get calls included, reaches its end unless the host process has
\* been ended by a runtime fault in the meantime.
C20_KernelsTerminate ==
  /\ [](\A h \in KernelHandles :
          /\ Outstanding(h) <= 1
          /\ Outstanding(h) <= icap[h] /\ Outstanding(h) <= rcap[h]
          /\ AtAsyncOn(h) => h \in live /\ AsyncReady(h))
  /\ (kpc \in SeqRunning) ~> (kpc = "seq_done" \/ ~ProcessAlive)
  /\ (kpc \in ParRunning) ~> (kpc = "par_done" \/ ~ProcessAlive)

\* ParallelTask has reached its end in a process that is still running
C20_Witness ==
  /\ kpc = "par_done"
  /\ ProcessAlive
  /\ \A h \in KernelHandles : nsub[h] = 1 /\ nget[h] = 1 /\ queue[h] = <<>>

\* ------------------------------------------------- cmake, as the two
\* ------------------------------------------------- CMakeLists.txt use it

\* A cmake variable is defined or not; its value is a sequence of pieces:
\* single characters where a file inspects the text, whole flags elsewhere.
Undefined == [def |-> FALSE, val |-> <<>>]
Value(v) == [def |-> TRUE, val |-> v]

UpperCase == <<"A", "B", "C", "D", "E", "F", "G", "H", "I", "J", "K", "L", "M",
               "N", "O", "P", "Q", "R", "S", "T", "U", "V", "W", "X", "Y", "Z">>
LowerCase == <<"a", "b", "c", "d", "e", "f", "g", "h", "i", "j", "k", "l", "m",
               "n", "o", "p", "q", "r", "s", "t", "u", "v", "w", "x", "y", "z">>

\* string(TOLOWER <string> <out>): upper-case letters become lower-case, every
\* other character stays
ToLowerChar(c) ==
  IF \E i \in 1..26 : UpperCase[i] = c
    THEN LowerCase[CHOOSE i \in 1..26 : UpperCase[i] = c]
    ELSE c
ToLower(s) == [i \in 1..Len(s) |-> ToLowerChar(s[i])]

\* s MATCHES ".*pat.*", and s MATCHES "pat": the literal text pat occurs in s
Contains(s, pat) ==
  \E i \in 1..(Len(s) - Len(pat) + 1) : SubSeq(s, i, i + Len(pat) - 1) = pat

\* s MATCHES ".pat.*": pat occurs in s after at least one character
ContainsAfterOne(s, pat) ==
  \E i \in 2..(Len(s) - Len(pat) + 1) : SubSeq(s, i, i + Len(pat) - 1) = pat

\* the names made of one to n of the given fragments
RECURSIVE NamesOf(_, _)
NamesOf(frags, n) ==
  IF n = 0 THEN {}
  ELSE frags \cup {a \o b : a \in NamesOf(frags, n - 1), b \in frags}

\* the task_sequence program is not part of a cmake or CI run
NoProgram ==
  /\ in = <<>> /\ count = 0 /\ golden = 0
  /\ out = [i \in 0..1 |-> 0] /\ outdev = [i \in 0..1 |-> 0]
  /\ hostPc = "none" /\ kpc = "none" /\ got = {} /\ printed = <<>>
  /\ live = {} /\ icap = DefaultCaps /\ rcap = DefaultCaps
  /\ xinv = 0 /\ xresp = 0
  /\ queue = NoQueues /\ hist = NoQueues /\ log = NoQueues
  /\ nsub = Zeros /\ nget = Zeros
  /\ rpc = "none" /\ rargs = <<>> /\ rres = <<>>
  /\ argv = <<>> /\ q = "none" /\ inflight = {} /\ timed = {} /\ dcall = <<>>

progVars == <<cfgVars, apiVars, mainVars, readmeVars>>

\* ---- device_global/src/CMakeLists.txt

A10 == <<"A", "1", "0">>
S10 == <<"S", "1", "0">>
Agilex == <<"A", "g", "i", "l", "e", "x">>

\* pieces of the FPGA_DEVICE names cmake is started with
BoardFragments ==
  {A10, <<"s", "1", "0">>, <<"S", "t", "r", "a", "t", "i", "x", "1", "0">>,
   Agilex, <<"A", "r", "r", "i", "a", "1">>, <<"0">>, <<"x">>}

\* the values -DDEVICE_FLAG=... is given
BoardFlags == {A10, S10, Agilex, <<"a", "1", "0">>, <<"M", "y", "A", "1", "0">>, <<>>}

\* the variables of device_global's CMakeLists.txt
BoardVarNames == {"FPGA_DEVICE", "DEVICE_FLAG", "WIN32", "FPGA_DEVICE_NAME",
                  "WIN_FLAG", "HANDSHAKING", "USER_HARDWARE_FLAGS"}

\* cmake is started on device_global: FPGA_DEVICE and DEVICE_FLAG are given
\* with -D or not; WIN32 is defined on Windows
BoardInit ==
  /\ NoProgram /\ NoCiRun
  /\ cmFile = "device_global" /\ cmPc = "board"
  /\ \E dev \in {Undefined} \cup {Value(n) : n \in NamesOf(BoardFragments, MaxParts)},
        flag \in {Undefined} \cup {Value(f) : f \in BoardFlags},
        win \in {Undefined, Value(<<"1">>)} :
       /\ cmArgs = [n \in {"FPGA_DEVICE", "DEVICE_FLAG"} |->
                      IF n = "FPGA_DEVICE" THEN dev ELSE flag]
       /\ cmVars = [n \in BoardVarNames |->
                      CASE n = "FPGA_DEVICE" -> dev
                        [] n = "DEVICE_FLAG" -> flag
                        [] n = "WIN32" -> win
                        [] OTHER -> Undefined]
  /\ cmMsgs = <<>> /\ cmFlags = <<>>

\* a family selection that tests S10 before A10
SelectFamily_S10First(name, flag) ==
  IF Contains(name, <<"s", "1", "0">>) \/ Contains(name, <<"s", "t", "r", "a", "t", "i", "x", "1", "0">>)
    THEN Value(S10)
  ELSE IF Contains(name, <<"a", "1", "0">>) \/ Contains(name, <<"a", "r", "r", "i", "a", "1", "0">>)
    THEN Value(A10)
  ELSE IF Contains(name, <<"a", "g", "i", "l", "e", "x">>) THEN Value(Agilex)
  ELSE flag

\* if(FPGA_DEVICE_NAME MATCHES ".*a10.*" OR ... ".*arria10.*") set(DEVICE_FLAG
\* "A10") elseif(... ".*s10.*" OR ... ".*stratix10.*") set(DEVICE_FLAG "S10")
\* elseif(... ".*agilex.*") set(DEVICE_FLAG "Agilex") endif(): DEVICE_FLAG
\* after the statement, flag being DEVICE_FLAG before it
SelectFamily(name, flag) ==
  IF Contains(name, <<"a", "1", "0">>) \/ Contains(name, <<"a", "r", "r", "i", "a", "1", "0">>)
    THEN Value(A10)
  ELSE IF Contains(name, <<"s", "1", "0">>) \/ Contains(name, <<"s", "t", "r", "a", "t", "i", "x", "1", "0">>)
    THEN Value(S10)
  ELSE IF Contains(name, <<"a", "g", "i", "l", "e", "x">>) THEN Value(Agilex)
  ELSE flag

\* if(NOT DEFINED FPGA_DEVICE) ... else() ... endif(): the board selection
BoardSelect ==
  /\ cmFile = "device_global" /\ cmPc = "board"
  /\ IF ~cmVars["FPGA_DEVICE"].def
       THEN /\ cmVars' = [cmVars EXCEPT !["FPGA_DEVICE"] = Value(Agilex),
                                        !["DEVICE_FLAG"] = Value(Agilex)]
            /\ cmMsgs' = Append(cmMsgs, "STATUS: FPGA_DEVICE was not specified.")
       ELSE /\ cmVars' =
                 [cmVars EXCEPT
                    !["FPGA_DEVICE_NAME"] = Value(ToLower(cmVars["FPGA_DEVICE"].val)),
                    !["DEVICE_FLAG"] =
                       SelectFamily(ToLower(cmVars["FPGA_DEVICE"].val),
                                    cmVars["DEVICE_FLAG"])]
            /\ cmMsgs' = Append(cmMsgs,
                 "STATUS: Configuring the design with the following target")
  /\ cmPc' = "check_flag"
  /\ UNCHANGED <<progVars, ciVars, cmFile, cmArgs, cmFlags>>

\* if(NOT DEFINED DEVICE_FLAG) message(FATAL_ERROR ...) endif()
BoardCheckFlag ==
  /\ cmFile = "device_global" /\ cmPc = "check_flag"
  /\ IF ~cmVars["DEVICE_FLAG"].def
       THEN /\ cmMsgs' = Append(cmMsgs,
                 "FATAL_ERROR: An unrecognized or custom board was passed, but DEVICE_FLAG was not specified.")
            /\ cmPc' = "fatal_error"
       ELSE /\ cmMsgs' = cmMsgs
            /\ cmPc' = "win_flag"
  /\ UNCHANGED <<progVars, ciVars, cmFile, cmVars, cmArgs, cmFlags>>

\* if(WIN32) set(WIN_FLAG "/EHsc") endif()
BoardWinFlag ==
  /\ cmFile = "device_global" /\ cmPc = "win_flag"
  /\ cmVars' = IF cmVars["WIN32"].def
                 THEN [cmVars EXCEPT !["WIN_FLAG"] = Value(<<"/EHsc">>)]
                 ELSE cmVars
  /\ cmPc' = "handshaking"
  /\ UNCHANGED <<progVars, ciVars, cmFile, cmMsgs, cmArgs, cmFlags>>

\* if(DEVICE_FLAG MATCHES "A10") set(HANDSHAKING "") else() set(HANDSHAKING
\* "-Xshyper-optimized-handshaking=off") endif()
BoardHandshaking ==
  /\ cmFile = "device_global" /\ cmPc = "handshaking"
  /\ cmVars' = [cmVars EXCEPT !["HANDSHAKING"] =
                  IF Contains(cmVars["DEVICE_FLAG"].val, A10)
                    THEN Value(<<>>)
                    ELSE Value(<<"-Xshyper-optimized-handshaking=off">>)]
  /\ cmPc' = "flags"
  /\ UNCHANGED <<progVars, ciVars, cmFile, cmMsgs, cmArgs, cmFlags>>

\* ${NAME} inside a quoted argument: the value, nothing when NAME is not set
Ref(name) == cmVars[name].val

\* set(EMULATOR_COMPILE_FLAGS ...) ... set(HARDWARE_LINK_FLAGS ...)
BoardSetFlags ==
  /\ cmFile = "device_global" /\ cmPc = "flags"
  /\ cmFlags' =
       [EMULATOR_COMPILE_FLAGS |->
          <<"-fsycl", "-Wall">> \o Ref("WIN_FLAG") \o <<"-fintelfpga">>,
        EMULATOR_LINK_FLAGS |-> <<"-fsycl", "-fintelfpga">>,
        SIMULATOR_COMPILE_FLAGS |->
          <<"-fsycl", "-Wall">> \o Ref("WIN_FLAG")
            \o <<"-fintelfpga", "-DFPGA_SIMULATOR">>,
        SIMULATOR_LINK_FLAGS |->
          <<"-fsycl", "-fintelfpga", "-Xssimulation", "-Xsghdl">>
            \o Ref("HANDSHAKING") \o <<"-Xstarget=">> \o Ref("FPGA_DEVICE")
            \o Ref("USER_HARDWARE_FLAGS"),
        HARDWARE_COMPILE_FLAGS |->
          <<"-fsycl", "-Wall">> \o Ref("WIN_FLAG")
            \o <<"-fintelfpga", "-DFPGA_HARDWARE">>,
        HARDWARE_LINK_FLAGS |->
          <<"-fsycl", "-fintelfpga", "-Xshardware">>
            \o Ref("HANDSHAKING") \o <<"-Xstarget=">> \o Ref("FPGA_DEVICE")
            \o Ref("USER_HARDWARE_FLAGS")]
  /\ cmPc' = "configured"
  /\ UNCHANGED <<progVars, ciVars, cmFile, cmVars, cmMsgs, cmArgs>>

BoardNext ==
  \/ BoardSelect
  \/ BoardCheckFlag
  \/ BoardWinFlag
  \/ BoardHandshaking
  \/ BoardSetFlags

BoardSpec == BoardInit /\ [][BoardNext]_vars

\* the lower-cased FPGA_DEVICE name cmake was started with
GivenName == ToLower(cmArgs["FPGA_DEVICE"].val)

\* that name contains the text w
NameHas(w) == Contains(GivenName, w)

\* that name contains none of a10, arria10, s10, stratix10, agilex
NameUnrecognised ==
  ~(NameHas(<<"a", "1", "0">>) \/ NameHas(<<"a", "r", "r", "i", "a", "1", "0">>) \/ NameHas(<<"s", "1", "0">>)
      \/ NameHas(<<"s", "t", "r", "a", "t", "i", "x", "1", "0">>) \/ NameHas(<<"a", "g", "i", "l", "e", "x">>))

\* the configuration in which the claim expects the FATAL_ERROR
ExpectFatal ==
  /\ cmArgs["FPGA_DEVICE"].def
  /\ NameUnrecognised
  /\ ~cmArgs["DEVICE_FLAG"].def

\* the value the claim gives DEVICE_FLAG in the other configurations
ExpectedFlag ==
  IF ~cmArgs["FPGA_DEVICE"].def THEN Agilex
  ELSE IF NameHas(<<"a", "1", "0">>) \/ NameHas(<<"a", "r", "r", "i", "a", "1", "0">>) THEN A10
  ELSE IF NameHas(<<"s", "1", "0">>) \/ NameHas(<<"s", "t", "r", "a", "t", "i", "x", "1", "0">>) THEN S10
  ELSE IF NameHas(<<"a", "g", "i", "l", "e", "x">>) THEN Agilex
  ELSE cmArgs["DEVICE_FLAG"].val

\* the flags of a flag set, as a set
FlagsIn(name) == {cmFlags[name][i] : i \in 1..Len(cmFlags[name])}

\* C21: device_global board selection. For FPGA_DEVICE absent or given as a
\* non-empty name: configuration stops with the FATAL_ERROR "An unrecognized
\* or custom board was passed, but DEVICE_FLAG was not specified" exactly
\* when FPGA_DEVICE is given, its lower-cased name contains none of a10,
\* arria10, s10, stratix10, agilex, and DEVICE_FLAG was not passed; otherwise
\* DEVICE_FLAG is defined (Agilex without FPGA_DEVICE; A10, S10 or Agilex by
\* the first matching family; the value passed for an unrecognised name) and
\* the hyper-optimized-handshaking=off link flag is used exactly when
\* DEVICE_FLAG does not match A10.
C21_BoardSelection ==
  cmFile = "device_global" =>
    /\ cmPc \notin {"board", "check_flag"} =>
         /\ cmPc = "fatal_error" <=> ExpectFatal
         /\ cmPc = "fatal_error" =>
              cmMsgs[Len(cmMsgs)] =
                "FATAL_ERROR: An unrecognized or custom board was passed, but DEVICE_FLAG was not specified."
         /\ cmPc # "fatal_error" =>
              /\ cmVars["DEVICE_FLAG"].def
              /\ cmVars["DEVICE_FLAG"].val = ExpectedFlag
    /\ cmPc = "configured" =>
         /\ \A fs \in {"SIMULATOR_LINK_FLAGS", "HARDWARE_LINK_FLAGS"} :
              "-Xshyper-optimized-handshaking=off" \in FlagsIn(fs)
                <=> ~Contains(cmVars["DEVICE_FLAG"].val, A10)
         /\ "-Xshyper-optimized-handshaking=off"
              \notin FlagsIn("EMULATOR_LINK_FLAGS")

\* a name with both s10 and a10 in it is configured as A10, handshaking kept
C21_Witness ==
  /\ cmFile = "device_global" /\ cmPc = "configured"
  /\ cmArgs["FPGA_DEVICE"].def
  /\ NameHas(<<"s", "1", "0">>) /\ NameHas(<<"a", "1", "0">>)
  /\ cmVars["DEVICE_FLAG"].val = A10
  /\ "-Xshyper-optimized-handshaking=off" \notin FlagsIn("HARDWARE_LINK_FLAGS")

\* ---- mvdr_beamforming/src/CMakeLists.txt

\* pieces of the FPGA_DEVICE names cmake is started with
MvdrFragments ==
  {<<"p", "a", "c", "_", "a", "1", "0">>, <<"p", "a", "c", "_", "s", "1", "0">>,
   <<"u", "s", "m">>, <<"_">>, <<"A", "g", "i", "l", "e", "x", "7">>}

\* the values -DIS_BSP=... is given
BspValues == {<<"1">>, <<"0">>, <<"1", "0">>}

\* the options of the file that cmake tests for being set to a true value
MvdrOptions == {"FLAT_COMPILE", "PROFILE_HW", "LARGE_SENSOR_ARRAY",
                "NUM_SENSORS", "QRD_MIN_ITERATIONS", "STREAMING_PIPE_WIDTH"}

\* the variables of mvdr_beamforming's CMakeLists.txt
MvdrVarNames ==
  {"FPGA_DEVICE", "IS_BSP", "WIN32", "REAL_IO_PIPES", "ENABLE_USM", "WIN_FLAG",
   "AC_TYPES_FLAG", "REAL_IO_PIPES_FLAG", "STREAMING_PIPE_WIDTH_FLAG",
   "UDP_LINK_FLAGS", "FLAT_COMPILE_FLAG", "PROFILE_FLAG", "SENSOR_SIZE_FLAG",
   "NUM_SENSORS_FLAG", "QRD_MIN_ITERATIONS_FLAG", "USER_HARDWARE_FLAGS"}
    \cup MvdrOptions

\* cmake is started on mvdr_beamforming: FPGA_DEVICE, IS_BSP and
\* REAL_IO_PIPES are given with -D or not, the other options all or none
MvdrInit ==
  /\ NoProgram /\ NoCiRun
  /\ cmFile = "mvdr_beamforming" /\ cmPc = "board"
  /\ \E dev \in {Undefined} \cup {Value(n) : n \in NamesOf(MvdrFragments, MaxParts)},
        bsp \in {Undefined} \cup {Value(b) : b \in BspValues},
        win \in {Undefined, Value(<<"1">>)},
        pipes \in {Undefined, Value(<<"1">>)},
        opts \in {Undefined, Value(<<"2">>)} :
       /\ cmArgs = [n \in {"FPGA_DEVICE", "IS_BSP"} |->
                      IF n = "FPGA_DEVICE" THEN dev ELSE bsp]
       /\ cmVars = [n \in MvdrVarNames |->
                      CASE n = "FPGA_DEVICE" -> dev
                        [] n = "IS_BSP" -> bsp
                        [] n = "WIN32" -> win
                        [] n = "REAL_IO_PIPES" -> pipes
                        [] n \in MvdrOptions -> opts
                        [] OTHER -> Undefined]
  /\ cmMsgs = <<>> /\ cmFlags = <<>>

\* the text of a variable's name
NameText(name) ==
  CASE name = "IS_BSP" -> <<"I", "S", "_", "B", "S", "P">>
    [] name = "FPGA_DEVICE" -> <<"F", "P", "G", "A", "_", "D", "E", "V", "I", "C", "E">>

\* an unquoted NAME as an operand of if(): the variable's value when NAME is
\* defined, the text NAME itself otherwise
Operand(name) ==
  IF cmVars[name].def THEN cmVars[name].val ELSE NameText(name)

\* if(IS_BSP MATCHES "1" OR FPGA_DEVICE MATCHES ".*pac_a10.*|.*pac_s10.*")
IsBspTarget ==
  \/ Contains(Operand("IS_BSP"), <<"1">>)
  \/ Contains(Operand("FPGA_DEVICE"), <<"p", "a", "c", "_", "a", "1", "0">>)
  \/ Contains(Operand("FPGA_DEVICE"), <<"p", "a", "c", "_", "s", "1", "0">>)

\* if(NOT DEFINED FPGA_DEVICE) ... set(IS_BSP "0") else() ... endif()
MvdrSelect ==
  /\ cmFile = "mvdr_beamforming" /\ cmPc = "board"
  /\ IF ~cmVars["FPGA_DEVICE"].def
       THEN /\ cmVars' = [cmVars EXCEPT !["FPGA_DEVICE"] = Value(Agilex),
                                        !["IS_BSP"] = Value(<<"0">>)]
            /\ cmMsgs' = Append(cmMsgs, "STATUS: FPGA_DEVICE was not specified.")
       ELSE IF IsBspTarget
         THEN /\ cmVars' = [cmVars EXCEPT !["IS_BSP"] = Value(<<"1">>)]
              /\ cmMsgs' = Append(cmMsgs,
                   "STATUS: Configuring the design with the following target")
         ELSE /\ cmVars' = [cmVars EXCEPT !["IS_BSP"] = Value(<<"0">>)]
              /\ cmMsgs' = cmMsgs \o
                   <<"STATUS: Configuring the design with the following target",
                     "STATUS: The selected target is assumed to be an FPGA part number, so USM will be enabled by default.",
                     "STATUS: If the target is actually a BSP that does not support USM, run cmake with -DIS_BSP=1.">>
  /\ cmPc' = "usm"
  /\ UNCHANGED <<progVars, ciVars, cmFile, cmArgs, cmFlags>>

\* if((IS_BSP STREQUAL "0") OR FPGA_DEVICE MATCHES ".usm.*")
UsmEnabled ==
  \/ Operand("IS_BSP") = <<"0">>
  \/ ContainsAfterOne(Operand("FPGA_DEVICE"), <<"u", "s", "m">>)

\* ... set(ENABLE_USM "-DUSM_HOST_ALLOCATIONS") message(STATUS ...) endif()
MvdrEnableUsm ==
  /\ cmFile = "mvdr_beamforming" /\ cmPc = "usm"
  /\ IF UsmEnabled
       THEN /\ cmVars' = [cmVars EXCEPT
                            !["ENABLE_USM"] = Value(<<"-DUSM_HOST_ALLOCATIONS">>)]
            /\ cmMsgs' = Append(cmMsgs, "STATUS: USM host allocations are enabled")
       ELSE UNCHANGED <<cmVars, cmMsgs>>
  /\ cmPc' = "win_flag"
  /\ UNCHANGED <<progVars, ciVars, cmFile, cmArgs, cmFlags>>

\* if(WIN32) set(WIN_FLAG "/EHsc") set(AC_TYPES_FLAG "/Qactypes") else()
\* set(AC_TYPES_FLAG "-qactypes") endif()
MvdrWinFlag ==
  /\ cmFile = "mvdr_beamforming" /\ cmPc = "win_flag"
  /\ cmVars' = IF cmVars["WIN32"].def
                 THEN [cmVars EXCEPT !["WIN_FLAG"] = Value(<<"/EHsc">>),
                                     !["AC_TYPES_FLAG"] = Value(<<"/Qactypes">>)]
                 ELSE [cmVars EXCEPT !["AC_TYPES_FLAG"] = Value(<<"-qactypes">>)]
  /\ cmPc' = "pipes"
  /\ UNCHANGED <<progVars, ciVars, cmFile, cmMsgs, cmArgs, cmFlags>>

\* if(NAME): NAME is defined to a value that is not a false constant
IsOn(name) == cmVars[name].def /\ cmVars[name].val \notin {<<>>, <<"0">>}

\* if(REAL_IO_PIPES) ... if(WIN32) message(FATAL_ERROR ...) endif() endif()
MvdrRealPipes ==
  /\ cmFile = "mvdr_beamforming" /\ cmPc = "pipes"
  /\ IF IsOn("REAL_IO_PIPES")
       THEN /\ cmVars' = [cmVars EXCEPT
                 !["REAL_IO_PIPES_FLAG"] = Value(<<"-DREAL_IO_PIPES">>),
                 !["STREAMING_PIPE_WIDTH_FLAG"] =
                    Value(<<"-DSTREAMING_PIPE_WIDTH=1">>),
                 !["UDP_LINK_FLAGS"] =
                    Value(<<"-luuid", "-lopae-c", "-lpthread">>)]
            /\ IF cmVars["WIN32"].def
                 THEN /\ cmMsgs' = cmMsgs \o
                           <<"STATUS: Design is using real IO pipes",
                             "FATAL_ERROR: The real IO pipe design is only supported on Linux">>
                      /\ cmPc' = "fatal_error"
                 ELSE /\ cmMsgs' = Append(cmMsgs,
                           "STATUS: Design is using real IO pipes")
                      /\ cmPc' = "options"
       ELSE /\ UNCHANGED <<cmVars, cmMsgs>>
            /\ cmPc' = "options"
  /\ UNCHANGED <<progVars, ciVars, cmFile, cmArgs, cmFlags>>

\* set(NAME_FLAG "<flag>") when if(NAME) holds, NAME_FLAG as it was otherwise
FlagIfOn(name, flagVar, flag) ==
  IF IsOn(name) THEN Value(<<flag>>) ELSE cmVars[flagVar]

\* if(FLAT_COMPILE) ... if(PROFILE_HW) ... if(LARGE_SENSOR_ARRAY) ...
\* if(NUM_SENSORS) ... if(QRD_MIN_ITERATIONS) ... if(STREAMING_PIPE_WIDTH) ...
MvdrOptionFlags ==
  /\ cmFile = "mvdr_beamforming" /\ cmPc = "options"
  /\ cmVars' =
       [cmVars EXCEPT
          !["FLAT_COMPILE_FLAG"] =
             FlagIfOn("FLAT_COMPILE", "FLAT_COMPILE_FLAG", "-Xsbsp-flow=flat"),
          !["PROFILE_FLAG"] =
             FlagIfOn("PROFILE_HW", "PROFILE_FLAG", "-Xsprofile"),
          !["SENSOR_SIZE_FLAG"] =
             FlagIfOn("LARGE_SENSOR_ARRAY", "SENSOR_SIZE_FLAG",
                      "-DLARGE_SENSOR_ARRAY"),
          !["NUM_SENSORS_FLAG"] =
             IF IsOn("NUM_SENSORS")
               THEN Value(<<"-DNUM_SENSORS=">> \o cmVars["NUM_SENSORS"].val)
               ELSE cmVars["NUM_SENSORS_FLAG"],
          !["QRD_MIN_ITERATIONS_FLAG"] =
             IF IsOn("QRD_MIN_ITERATIONS")
               THEN Value(<<"-DQRD_MIN_ITERATIONS=">>
                            \o cmVars["QRD_MIN_ITERATIONS"].val)
               ELSE cmVars["QRD_MIN_ITERATIONS_FLAG"],
          !["STREAMING_PIPE_WIDTH_FLAG"] =
             IF IsOn("STREAMING_PIPE_WIDTH")
               THEN Value(<<"-DSTREAMING_PIPE_WIDTH=">>
                            \o cmVars["STREAMING_PIPE_WIDTH"].val)
               ELSE cmVars["STREAMING_PIPE_WIDTH_FLAG"]]
  /\ cmMsgs' = IF IsOn("FLAT_COMPILE")
                 THEN Append(cmMsgs, "STATUS: Doing a flat compile")
                 ELSE cmMsgs
  /\ cmPc' = "flags"
  /\ UNCHANGED <<progVars, ciVars, cmFile, cmArgs, cmFlags>>

\* ${ENABLE_USM} ${SENSOR_SIZE_FLAG} ${NUM_SENSORS_FLAG}
\* ${QRD_MIN_ITERATIONS_FLAG}
SizeFlags ==
  Ref("ENABLE_USM") \o Ref("SENSOR_SIZE_FLAG") \o Ref("NUM_SENSORS_FLAG")
    \o Ref("QRD_MIN_ITERATIONS_FLAG")

\* set(REPORT_LINK_FLAGS ...)
ReportLinkFlags ==
  <<"-fsycl", "-fintelfpga", "-Wall", "-Xshardware", "-fbracket-depth=512">>
    \o SizeFlags \o Ref("REAL_IO_PIPES_FLAG")
    \o Ref("STREAMING_PIPE_WIDTH_FLAG") \o Ref("PROFILE_FLAG")
    \o <<"-Xsparallel=2", "-Xstarget=">> \o Ref("FPGA_DEVICE")
    \o Ref("USER_HARDWARE_FLAGS") \o Ref("UDP_LINK_FLAGS")

\* set(EMULATOR_COMPILE_FLAGS ...) ... set(HARDWARE_LINK_FLAGS ...)
MvdrSetFlags ==
  /\ cmFile = "mvdr_beamforming" /\ cmPc = "flags"
  /\ cmFlags' =
       [EMULATOR_COMPILE_FLAGS |->
          <<"-fsycl", "-fintelfpga", "-Wall">> \o Ref("WIN_FLAG")
            \o <<"-fbracket-depth=512">> \o Ref("AC_TYPES_FLAG") \o SizeFlags
            \o Ref("STREAMING_PIPE_WIDTH_FLAG") \o <<"-DFPGA_EMULATOR">>,
        EMULATOR_LINK_FLAGS |->
          <<"-fsycl", "-fintelfpga">> \o Ref("AC_TYPES_FLAG")
            \o Ref("ENABLE_USM"),
        SIMULATOR_COMPILE_FLAGS |->
          <<"-fsycl", "-fintelfpga", "-Wall">> \o Ref("WIN_FLAG")
            \o <<"-fbracket-depth=512">> \o Ref("AC_TYPES_FLAG") \o SizeFlags
            \o Ref("STREAMING_PIPE_WIDTH_FLAG") \o <<"-DFPGA_SIMULATOR">>,
        SIMULATOR_LINK_FLAGS |->
          <<"-fsycl", "-fintelfpga", "-Wall", "-fbracket-depth=512">>
            \o SizeFlags \o Ref("REAL_IO_PIPES_FLAG")
            \o Ref("STREAMING_PIPE_WIDTH_FLAG") \o <<"-Xstarget=">>
            \o Ref("FPGA_DEVICE") \o Ref("USER_HARDWARE_FLAGS")
            \o Ref("UDP_LINK_FLAGS") \o Ref("AC_TYPES_FLAG")
            \o <<"-Xssimulation", "-Xsghdl">>,
        HARDWARE_COMPILE_FLAGS |->
          <<"-fsycl", "-fintelfpga">> \o Ref("WIN_FLAG")
            \o <<"-fbracket-depth=512">> \o Ref("AC_TYPES_FLAG") \o SizeFlags
            \o Ref("REAL_IO_PIPES_FLAG") \o Ref("STREAMING_PIPE_WIDTH_FLAG")
            \o <<"-DFPGA_HARDWARE">>,
        REPORT_LINK_FLAGS |-> ReportLinkFlags,
        HARDWARE_LINK_FLAGS |-> ReportLinkFlags \o Ref("AC_TYPES_FLAG")]
  /\ cmPc' = "configured"
  /\ UNCHANGED <<progVars, ciVars, cmFile, cmVars, cmMsgs, cmArgs>>

MvdrNext ==
  \/ MvdrSelect
  \/ MvdrEnableUsm
  \/ MvdrWinFlag
  \/ MvdrRealPipes
  \/ MvdrOptionFlags
  \/ MvdrSetFlags

MvdrSpec == MvdrInit /\ [][MvdrNext]_vars

\* the flag sets the file defines
MvdrFlagSets ==
  {"EMULATOR_COMPILE_FLAGS", "EMULATOR_LINK_FLAGS", "SIMULATOR_COMPILE_FLAGS",
   "SIMULATOR_LINK_FLAGS", "HARDWARE_COMPILE_FLAGS", "REPORT_LINK_FLAGS",
   "HARDWARE_LINK_FLAGS"}

\* the FPGA_DEVICE name cmake was started with matches ".usm.*"
GivenNameIsUsm ==
  /\ cmArgs["FPGA_DEVICE"].def
  /\ ContainsAfterOne(cmArgs["FPGA_DEVICE"].val, <<"u", "s", "m">>)

Cd(path) == [op |-> "cd", path |-> path, gpu |-> FALSE]
Mkdir(name) == [op |-> "mkdir", path |-> <<name>>, gpu |-> FALSE]
Configure(gpu) == [op |-> "configure", path |-> <<"..">>, gpu |-> gpu]
Build == [op |-> "build", path |-> <<".">>, gpu |-> FALSE]
Install == [op |-> "install", path |-> <<".">>, gpu |-> FALSE]
Run(exe, gpu) == [op |-> "run", path |-> <<exe>>, gpu |-> gpu]

\* "ciTests": { "linux": [ { "steps": [ ... ] } ] }
LinuxSteps ==
  <<Cd(<<"cpu">>), Mkdir("build"), Cd(<<"build">>), Configure(FALSE), Build,
    Run("rkRayTracer", FALSE), Cd(<<"..", "..">>),
    Cd(<<"gpu">>), Mkdir("build"), Cd(<<"build">>), Configure(TRUE), Build,
    Install, Cd(<<"..", "bin">>), Run("rkRayTracerGPU", TRUE)>>

\* "windows": [ { "steps": [ ... ] } ]
WindowsSteps ==
  <<Cd(<<"cpu">>), Mkdir("build"), Cd(<<"build">>), Configure(FALSE), Build,
    Cd(<<"Release">>), Run("rkRayTracer.exe", FALSE), Cd(<<"..", "..">>),
    Cd(<<"gpu">>), Mkdir("build"), Cd(<<"build">>),
    Cd(<<"gpu">>), Mkdir("build"), Cd(<<"build">>), Configure(TRUE), Build,
    Install, Cd(<<"..", "bin">>), Run("rkRayTracerGPU.exe", TRUE)>>

\* "darwin": [ { "steps": [ ... ] } ]
DarwinSteps ==
  <<Cd(<<"cpu">>), Mkdir("build"), Cd(<<"build">>), Configure(FALSE), Build,
    Install, Cd(<<"..", "bin">>), Run("rkRayTracer", FALSE)>>

Platforms == {"linux", "windows", "darwin"}

StepsOf(plat) ==
  CASE plat = "linux" -> LinuxSteps
    [] plat = "windows" -> WindowsSteps
    [] plat = "darwin" -> DarwinSteps

\* the path that leaves the sample root
Outside == <<"..">>

\* the directory a path leads to from directory dir: ".." is the parent, "."
\* the directory itself, a name the entry of that name
RECURSIVE Resolve(_, _)
Resolve(dir, path) ==
  IF path = <<>> \/ dir = Outside THEN dir
  ELSE IF Head(path) = "." THEN Resolve(dir, Tail(path))
  ELSE IF Head(path) = ".."
    THEN IF dir = <<>> THEN Outside
         ELSE Resolve(SubSeq(dir, 1, Len(dir) - 1), Tail(path))
  ELSE Resolve(Append(dir, Head(path)), Tail(path))

\* the sample's two source directories, each with its own CMakeLists.txt
SourceDirs == {<<"cpu">>, <<"gpu">>}

\* the executable the project in source directory dir builds
Executable(dir, plat) ==
  IF plat = "windows"
    THEN IF dir = <<"gpu">> THEN "rkRayTracerGPU.exe" ELSE "rkRayTracer.exe"
    ELSE IF dir = <<"gpu">> THEN "rkRayTracerGPU" ELSE "rkRayTracer"

\* where a build in build directory dir leaves the executable: in dir, and
\* in dir/Release with the Visual Studio generator
BuildOutput(dir, plat) ==
  IF plat = "windows" THEN Append(dir, "Release") ELSE dir

\* a step list is started in a fresh copy of the sample: the sample root
\* holds the directories cpu and gpu
CiInit ==
  /\ NoProgram /\ NoCMake
  /\ ciPlat \in Platforms
  /\ ciPolicy \in {"stop", "continue"}
  /\ ciStep = 0 /\ ciCwd = <<>> /\ ciDirs = {<<>>} \cup SourceDirs
  /\ ciState = "running" /\ ciLog = <<>>

\* the step that is next in the list
CiCurrent == StepsOf(ciPlat)[ciStep + 1]

CiAt(op) ==
  /\ ciPlat \in Platforms /\ ciState = "running"
  /\ ciStep < Len(StepsOf(ciPlat))
  /\ CiCurrent.op = op

\* a step has been carried out with the given outcome: the runner notes it,
\* and goes on to the next step unless the step failed and it stops there
CiDone(outcome) ==
  /\ ciLog' = Append(ciLog, [res |-> outcome, cwd |-> ciCwd])
  /\ ciStep' = ciStep + 1
  /\ ciState' = IF outcome # "ok" /\ ciPolicy = "stop" THEN "stopped"
                ELSE IF ciStep + 1 = Len(StepsOf(ciPlat)) THEN "finished"
                ELSE "running"
  /\ UNCHANGED <<ciPlat, ciPolicy, progVars, cmakeVars>>

\* "cd <path>": fails when the path does not lead to an existing directory
CiCd ==
  /\ CiAt("cd")
  /\ LET target == Resolve(ciCwd, CiCurrent.path)
     IN IF target \in ciDirs
          THEN ciCwd' = target /\ CiDone("ok")
          ELSE ciCwd' = ciCwd /\ CiDone("no_such_directory")
  /\ UNCHANGED ciDirs

\* "mkdir build": fails when the directory already exists
CiMkdir ==
  /\ CiAt("mkdir")
  /\ LET target == Resolve(ciCwd, CiCurrent.path)
     IN IF target \notin ciDirs
          THEN ciDirs' = ciDirs \cup {target} /\ CiDone("ok")
          ELSE ciDirs' = ciDirs /\ CiDone("exists")
  /\ UNCHANGED ciCwd

\* "cmake ... ..": configures, in the working directory, the project of the
\* parent directory; it needs a CMakeLists.txt there, and may fail for
\* reasons of its own (a missing compiler or library)
CiConfigure ==
  /\ CiAt("configure")
  /\ LET source == Resolve(ciCwd, CiCurrent.path)
     IN IF source \in SourceDirs
          THEN \E works \in BOOLEAN :
                 IF works
                   THEN /\ ciDirs' = ciDirs \cup {Append(ciCwd, "CMakeCache.txt")}
                        /\ CiDone("ok")
                   ELSE ciDirs' = ciDirs /\ CiDone("tool_failed")
          ELSE ciDirs' = ciDirs /\ CiDone("not_a_project")
  /\ UNCHANGED ciCwd

\* the source directory the working directory was configured for
CiConfigured == Append(ciCwd, "CMakeCache.txt") \in ciDirs

\* "cmake --build .": builds the executable in a configured directory
CiBuild ==
  /\ CiAt("build")
  /\ IF CiConfigured
       THEN \E works \in BOOLEAN :
              IF works
                THEN LET dir == BuildOutput(ciCwd, ciPlat)
                         exe == Executable(Resolve(ciCwd, <<"..">>), ciPlat)
                     IN /\ ciDirs' = ciDirs \cup {dir, Append(dir, exe)}
                        /\ CiDone("ok")
                ELSE ciDirs' = ciDirs /\ CiDone("tool_failed")
       ELSE ciDirs' = ciDirs /\ CiDone("not_configured")
  /\ UNCHANGED ciCwd

\* "cmake --install .": copies the built executable to the bin directory
\* next to the build directory, which the step after it enters
CiInstall ==
  /\ CiAt("install")
  /\ LET source == Resolve(ciCwd, <<"..">>)
         exe == Executable(source, ciPlat)
     IN IF CiConfigured /\ Append(BuildOutput(ciCwd, ciPlat), exe) \in ciDirs
          THEN \E works \in BOOLEAN :
                 IF works
                   THEN LET bin == Append(source, "bin")
                        IN /\ ciDirs' = ciDirs \cup {bin, Append(bin, exe)}
                           /\ CiDone("ok")
                   ELSE ciDirs' = ciDirs /\ CiDone("tool_failed")
          ELSE ciDirs' = ciDirs /\ CiDone("not_built")
  /\ UNCHANGED ciCwd

\* "./rkRayTracer" and the like: runs the executable of the working directory
CiRun ==
  /\ CiAt("run")
  /\ IF Resolve(ciCwd, CiCurrent.path) \in ciDirs
       THEN \E works \in BOOLEAN :
              CiDone(IF works THEN "ok" ELSE "tool_failed")
       ELSE CiDone("no_such_file")
  /\ UNCHANGED <<ciCwd, ciDirs>>

CiNext ==
  \/ CiCd
  \/ CiMkdir
  \/ CiConfigure
  \/ CiBuild
  \/ CiInstall
  \/ CiRun

CiSpec == CiInit /\ [][CiNext]_vars

\* the steps carried out so far
CiSteps == 1..Len(ciLog)

\* the compiler, the libraries and the device did their part: no configure,
\* build, install or run step failed for a reason of its own
CiToolsWork == \A i \in CiSteps : ciLog[i].res # "tool_failed"

\* C23: run step by step from the sample root with working tools, on every
\* platform every cd step finds its directory and every mkdir step creates
\* a new one (so no step fails), the GPU build is configured in gpu/build
\* and the GPU executable is run from gpu/bin.
C23_StepsExecutableInOrder ==
  (ciPlat \in Platforms /\ CiToolsWork) =>
    \A i \in CiSteps :
      LET step == StepsOf(ciPlat)[i]
      IN /\ ciLog[i].res = "ok"
         /\ (step.op = "configure" /\ step.gpu)
              => ciLog[i].cwd = <<"gpu", "build">>
         /\ (step.op = "run" /\ step.gpu) => ciLog[i].cwd = <<"gpu", "bin">>

\* the linux and darwin step lists are executable in order
LinuxDarwinExecutable ==
  ciPlat \in {"linux", "darwin"} => C23_StepsExecutableInOrder

====
